---- MODULE Spec2Model ----
(***************************************************************************)
(* primitive_db: a schema-enforcing record store.  The model covers the    *)
(* record engine of core.py (create_table, drop_table, insert, select,     *)
(* update, delete, info), the result cache of decorators.py and the table  *)
(* files of utils.py.  Python objects are tagged values, so that the       *)
(* language's own rules (bool is a subtype of int, True == 1) are part of  *)
(* the model.  Spec is a session of calls of the core; SpecToken and       *)
(* SpecWhere run _parse_value_token and parse_where of parser.py on drawn  *)
(* inputs; SpecRun is the command loop of engine.py reading lines, with    *)
(* the tokenizer and the parsers working on characters.                    *)
(***************************************************************************)
EXTENDS Integers, Sequences, FiniteSets, TLC

VARIABLES
    metadata,   \* dict: table name -> column list [("ID","int"), ...]
    files,      \* data/<name>.json: table name -> list of rows
    cache,      \* the dict closed over by cache_result: key -> cached value
    last,       \* the last call: its arguments, return value and printed error
    issued,     \* table name -> the highest ID an insert has given out so far
    calls,      \* the number of calls made in this session
    metafile,   \* db_meta.json as save_metadata left it
    alive,      \* the process of run(): "running", "exited" or "crashed"
    arg,        \* the text handed to the parser: a token, a token list, a line
    result      \* what the parser or the dispatcher made of arg

vars == <<metadata, files, cache, last, issued, calls, metafile, alive, arg, result>>

\* the state of the dispatcher and of the parser under test
shell == <<metafile, alive, arg, result>>

\* what save_metadata wrote: the JSON of a dict, or null for None
File(dict) == [null |-> FALSE, tables |-> dict]
NullFile == [null |-> TRUE, tables |-> <<>>]

\* result before anything was parsed, and once value came back
Pending == [done |-> FALSE, value |-> <<>>]
Done(value) == [done |-> TRUE, value |-> value]

----------------------------------------------------------------------------
(* Bounds of the model *)

MaxCalls == 5       \* calls of the engine in one session

----------------------------------------------------------------------------
(* Python values *)

IntV(n) == [t |-> "int", v |-> n]
BoolV(b) == [t |-> "bool", v |-> IF b THEN 1 ELSE 0]
StrV(s) == [t |-> "str", v |-> s]
NoneV == [t |-> "none", v |-> 0]

\* isinstance(val, int): bool is a subclass of int
IsInstanceInt(val) == val.t \in {"int", "bool"}
IsInstanceStr(val) == val.t = "str"
IsInstanceBool(val) == val.t = "bool"

\* x == y: int and bool compare by number, everything else within its type
PyEq(x, y) ==
    IF IsInstanceInt(x) /\ IsInstanceInt(y) THEN x.v = y.v ELSE x = y

\* row.get(k)
Get(row, k) == IF k \in DOMAIN row THEN row[k] ELSE NoneV

\* row.get("ID", 0)
GetId(row) == IF "ID" \in DOMAIN row THEN row["ID"] ELSE IntV(0)

VALID_TYPES == {"int", "str", "bool"}

----------------------------------------------------------------------------
(* Inputs *)

Names == {"t"}

Vals == {IntV(1), IntV(2), BoolV(TRUE), StrV("x")}

ColumnLists ==
    { << <<"a", "int">>, <<"b", "bool">> >>,
      << <<"a", "float">> >> }

\* value lists of insert: too short, well typed, ill typed, too long
ValueLists ==
    { <<>>,
      <<IntV(1)>>,
      <<IntV(1), BoolV(TRUE)>>,
      <<IntV(2), BoolV(TRUE)>>,
      <<BoolV(TRUE), BoolV(TRUE)>>,
      <<StrV("x"), BoolV(TRUE)>>,
      <<IntV(1), IntV(1)>>,
      <<IntV(1), BoolV(TRUE), IntV(2)>> }

\* a where_clause: absent (None) or a dict, as its items in order
NoWhere == [absent |-> TRUE, items |-> <<>>]
Dict(items) == [absent |-> FALSE, items |-> items]

\* the non-empty predicates
Predicates ==
    { Dict(<< <<"a", IntV(1)>> >>),
      Dict(<< <<"a", BoolV(TRUE)>> >>),
      Dict(<< <<"a", IntV(2)>> >>),
      Dict(<< <<"s", StrV("x")>> >>),
      Dict(<< <<"a", IntV(1)>>, <<"b", IntV(1)>> >>) }

Wheres == {NoWhere, Dict(<<>>)} \cup Predicates

\* a set_clause: the items of the dict in order
SetClauses ==
    { << <<"a", IntV(2)>> >>,
      << <<"a", BoolV(TRUE)>> >>,
      << <<"ID", IntV(1)>> >>,
      << <<"zz", IntV(1)>> >>,
      << <<"a", IntV(2)>>, <<"b", IntV(1)>> >> }

Answers == {"y", "n"}

----------------------------------------------------------------------------
(* Helpers of core.py *)

\* k in dict(columns)
HasCol(cols, k) == \E i \in 1..Len(cols) : cols[i][1] = k

\* dict(columns)[k]: a later pair of the same name overwrites an earlier one
ColType(cols, k) ==
    LET i == CHOOSE i \in 1..Len(cols) :
                 /\ cols[i][1] = k
                 /\ \A j \in (i + 1)..Len(cols) : cols[j][1] # k
    IN  cols[i][2]

\* the loop "for k, v in where_clause.items(): if row.get(k) != v: match = False"
Matches(row, items) ==
    \A i \in 1..Len(items) : PyEq(Get(row, items[i][1]), items[i][2])

\* the type checks shared by insert and update; "" when the value passes
TypeCheck(col_type, val) ==
    IF col_type = "int" /\ ~IsInstanceInt(val) THEN "ValueError:int"
    ELSE IF col_type = "str" /\ ~IsInstanceStr(val) THEN "ValueError:str"
    ELSE IF col_type = "bool" /\ ~IsInstanceBool(val) THEN "ValueError:bool"
    ELSE ""

\* utils.load_table_data: the rows of the file, [] when there is none
load_table_data(name) == files[name]

\* an ID counter that takes the number of rows for the maximum
max_id_by_count(data) == Len(data)

\* max((r.get("ID", 0) for r in data), default=0)
RECURSIVE MaxIdFrom(_, _, _)
MaxIdFrom(data, i, m) ==
    IF i > Len(data) THEN m
    ELSE MaxIdFrom(data, i + 1, IF GetId(data[i]).v > m THEN GetId(data[i]).v ELSE m)

max_id(data) ==
    IF data = <<>> THEN 0 ELSE MaxIdFrom(data, 2, GetId(data[1]).v)

\* an expected length that counts the ID column
expected_values_with_id(cols) == Len(cols)

\* expected = len(cols) - 1
expected_values(cols) == Len(cols) - 1

\* the loop of insert over zip(cols[1:], values): [err, key, row]
RECURSIVE InsertRow(_, _, _, _)
InsertRow(row, cols, values, i) ==
    IF i > Len(values) \/ i + 1 > Len(cols) THEN [err |-> "", key |-> "", row |-> row]
    ELSE LET col_name == cols[i + 1][1]
             col_type == cols[i + 1][2]
             e == TypeCheck(col_type, values[i])
         IN  IF e # "" THEN [err |-> e, key |-> col_name, row |-> row]
             ELSE InsertRow((col_name :> values[i]) @@ row, cols, values, i + 1)

\* compute() of select
Compute(data, where) ==
    IF where.absent \/ where.items = <<>> THEN data
    ELSE SelectSeq(data, LAMBDA row : Matches(row, where.items))

\* the loop of update over set_clause.items() on one matching row: [err, key, row]
RECURSIVE ApplySet(_, _, _, _)
ApplySet(row, setc, cols, i) ==
    IF i > Len(setc) THEN [err |-> "", key |-> "", row |-> row]
    ELSE LET sk == setc[i][1]
             sv == setc[i][2]
         IN  IF ~HasCol(cols, sk) THEN [err |-> "KeyError", key |-> sk, row |-> row]
             ELSE LET e == TypeCheck(ColType(cols, sk), sv)
                  IN  IF e # "" THEN [err |-> e, key |-> sk, row |-> row]
                      ELSE ApplySet((sk :> sv) @@ row, setc, cols, i + 1)

\* a scan that assigns to every row, matching or not
RECURSIVE UpdateScan_every_row(_, _, _, _, _)
UpdateScan_every_row(data, setc, where, cols, i) ==
    IF i > Len(data)
    THEN [err |-> "", key |-> "", data |-> data, at |-> 0, updated |-> 0]
    ELSE LET r == ApplySet(data[i], setc, cols, 1)
             d == [data EXCEPT ![i] = r.row]
             rest == UpdateScan_every_row(d, setc, where, cols, i + 1)
         IN  IF r.err # ""
             THEN [err |-> r.err, key |-> r.key, data |-> d, at |-> i, updated |-> 0]
             ELSE [rest EXCEPT !.updated = @ + 1]

\* the loop of update over the rows: [err, key, data, at, updated]; data is the
\* list in memory, at the index of the row at which an exception was raised (0:
\* none), updated the counter of the rows assigned to
RECURSIVE UpdateScan(_, _, _, _, _)
UpdateScan(data, setc, where, cols, i) ==
    IF i > Len(data)
    THEN [err |-> "", key |-> "", data |-> data, at |-> 0, updated |-> 0]
    ELSE IF Matches(data[i], where.items)
    THEN LET r == ApplySet(data[i], setc, cols, 1)
             d == [data EXCEPT ![i] = r.row]
             rest == UpdateScan(d, setc, where, cols, i + 1)
         IN  IF r.err # ""
             THEN [err |-> r.err, key |-> r.key, data |-> d, at |-> i, updated |-> 0]
             ELSE [rest EXCEPT !.updated = @ + 1]
    ELSE UpdateScan(data, setc, where, cols, i + 1)

\* a scan that stops deleting after the first matching row
RECURSIVE DeleteScan_first_only(_, _, _)
DeleteScan_first_only(data, where, i) ==
    IF i > Len(data) THEN [data |-> <<>>, deleted |-> 0]
    ELSE IF Matches(data[i], where.items)
    THEN [data |-> SubSeq(data, i + 1, Len(data)), deleted |-> 1]
    ELSE LET rest == DeleteScan_first_only(data, where, i + 1)
         IN  [rest EXCEPT !.data = <<data[i]>> \o @]

\* the loop of delete over the rows: [data, deleted]; data is new_data
RECURSIVE DeleteScan(_, _, _)
DeleteScan(data, where, i) ==
    IF i > Len(data) THEN [data |-> <<>>, deleted |-> 0]
    ELSE LET rest == DeleteScan(data, where, i + 1)
         IN  IF Matches(data[i], where.items)
             THEN [rest EXCEPT !.deleted = @ + 1]
             ELSE [rest EXCEPT !.data = <<data[i]>> \o @]

----------------------------------------------------------------------------
(* The cache key f"{table_name}:{str(where_clause)}" *)

\* repr of a value inside str(dict): 1, True, 'x' (the quote, then the text)
Repr(val) ==
    IF val.t = "str" THEN <<"'", val.v>>
    ELSE IF val.t = "bool" THEN <<"", IF val.v = 1 THEN "True" ELSE "False">>
    ELSE <<"", ToString(val.v)>>

CacheKey(name, where) ==
    [table |-> name,
     none |-> where.absent,
     items |-> [i \in 1..Len(where.items) |->
                   <<where.items[i][1]>> \o Repr(where.items[i][2])]]

----------------------------------------------------------------------------
(* The record of a call: what was passed, what came back (handle_db_errors *)
(* turns every exception into a printed message and the return value None) *)
(* and the counters the call kept (updated, deleted; the count of info).    *)

NoCall ==
    [op |-> "", name |-> "", columns |-> <<>>, values |-> <<>>, setc |-> <<>>,
     where |-> NoWhere, ans |-> "", ret |-> "None", rows |-> <<>>, count |-> 0,
     err |-> "", key |-> "", at |-> 0]

Call(op, name) == [NoCall EXCEPT !.op = op, !.name = name]

\* the wrapper of handle_db_errors after an exception: message printed, None returned
Raised(call, err, key) == [call EXCEPT !.ret = "None", !.err = err, !.key = key]

\* a list of rows returned
ReturnRows(call, rows) == [call EXCEPT !.ret = "rows", !.rows = rows]

Init ==
    /\ metadata = <<>>
    /\ files = [n \in Names |-> <<>>]
    /\ cache = <<>>
    /\ last = NoCall
    /\ issued = [n \in Names |-> 0]
    /\ calls = 0
    /\ metafile = File(<<>>)
    /\ alive = "running"
    /\ arg = <<>>
    /\ result = Pending

----------------------------------------------------------------------------
(* The cacher of decorators.py.  value stands for value_func(), which has *)
(* no effect of its own, so that computing it on a hit changes nothing.   *)

\* a cacher that stores the fresh value on every call
cache_result_always_stores(key, value) ==
    [value |-> value, cache |-> (key :> value) @@ cache]

\* cache_result(key, value_func): [value, cache], the value returned and the
\* dict afterwards
cache_result(key, value) ==
    IF key \in DOMAIN cache
    THEN [value |-> cache[key], cache |-> cache]
    ELSE [value |-> value, cache |-> (key :> value) @@ cache]

----------------------------------------------------------------------------
(* The operations of core.py *)

\* a create_table that stores the column list before it looks at the types
create_table_storing_first(name, columns) ==
    LET call == [Call("create_table", name) EXCEPT !.columns = columns]
        cols == << <<"ID", "int">> >> \o columns
    IN  /\ UNCHANGED <<files, cache, issued>>
        /\ IF name \in DOMAIN metadata
           THEN /\ last' = Raised(call, "ValueError:exists", name)
                /\ UNCHANGED metadata
           ELSE /\ metadata' = (name :> cols) @@ metadata
                /\ last' = IF \E i \in 1..Len(cols) : cols[i][2] \notin VALID_TYPES
                           THEN Raised(call, "ValueError:type", "")
                           ELSE [call EXCEPT !.ret = "metadata"]

create_table(name, columns) ==
    LET call == [Call("create_table", name) EXCEPT !.columns = columns]
        cols == << <<"ID", "int">> >> \o columns
    IN  /\ UNCHANGED <<files, cache, issued>>
        /\ IF name \in DOMAIN metadata
           THEN /\ last' = Raised(call, "ValueError:exists", name)
                /\ UNCHANGED metadata
           ELSE IF \E i \in 1..Len(cols) : cols[i][2] \notin VALID_TYPES
           THEN /\ last' = Raised(call, "ValueError:type", "")
                /\ UNCHANGED metadata
           ELSE /\ metadata' = (name :> cols) @@ metadata
                /\ last' = [call EXCEPT !.ret = "metadata"]

\* fails: save_table_data(name, []) raises, which drop_table swallows
drop_table(name, ans, fails) ==
    LET call == [Call("drop_table", name) EXCEPT !.ans = ans]
    IN  /\ UNCHANGED cache
        /\ IF ans # "y"
           THEN /\ last' = call
                /\ UNCHANGED <<metadata, files, issued>>
           ELSE IF name \notin DOMAIN metadata
           THEN /\ last' = Raised(call, "KeyError", name)
                /\ UNCHANGED <<metadata, files, issued>>
           ELSE /\ metadata' = [n \in DOMAIN metadata \ {name} |-> metadata[n]]
                /\ files' = IF fails THEN files ELSE [files EXCEPT ![name] = <<>>]
                /\ issued' = [issued EXCEPT ![name] = 0]
                /\ last' = [call EXCEPT !.ret = "metadata"]

insert(name, values) ==
    LET call == [Call("insert", name) EXCEPT !.values = values]
    IN  /\ UNCHANGED <<metadata, cache>>
        /\ IF name \notin DOMAIN metadata
           THEN /\ last' = Raised(call, "KeyError", name)
                /\ UNCHANGED <<files, issued>>
           ELSE LET cols == metadata[name]
                    expected == expected_values(cols)
                    data == load_table_data(name)
                    new_id == max_id(data) + 1
                    r == InsertRow("ID" :> IntV(new_id), cols, values, 1)
                IN  IF Len(values) # expected
                    THEN /\ last' = Raised(call, "ValueError:arity", "")
                         /\ UNCHANGED <<files, issued>>
                    ELSE IF \E i \in 1..Len(data) : ~IsInstanceInt(GetId(data[i]))
                    THEN \* max() over a str ID, or that ID + 1, raises TypeError
                         /\ last' = Raised(call, "TypeError", "ID")
                         /\ UNCHANGED <<files, issued>>
                    ELSE IF r.err # ""
                    THEN /\ last' = Raised(call, r.err, r.key)
                         /\ UNCHANGED <<files, issued>>
                    ELSE /\ files' = [files EXCEPT ![name] = Append(data, r.row)]
                         /\ issued' = [issued EXCEPT ![name] =
                                          IF new_id > @ THEN new_id ELSE @]
                         /\ last' = ReturnRows(call, Append(data, r.row))

select(name, where) ==
    LET call == [Call("select", name) EXCEPT !.where = where]
    IN  /\ UNCHANGED <<metadata, files, issued>>
        /\ IF name \notin DOMAIN metadata
           THEN /\ last' = Raised(call, "KeyError", name)
                /\ UNCHANGED cache
           ELSE LET data == load_table_data(name)
                    key == CacheKey(name, where)
                    r == cache_result(key, Compute(data, where))
                IN  /\ cache' = r.cache
                    /\ last' = ReturnRows(call, r.value)

\* an update that saves the list in memory before it reports the exception
update_saving_on_error(name, setc, where) ==
    LET call == [Call("update", name) EXCEPT !.setc = setc, !.where = where]
    IN  /\ UNCHANGED <<metadata, cache, issued>>
        /\ IF name \notin DOMAIN metadata
           THEN /\ last' = Raised(call, "KeyError", name)
                /\ UNCHANGED files
           ELSE LET r == UpdateScan(load_table_data(name), setc, where, metadata[name], 1)
                IN  /\ files' = [files EXCEPT ![name] = r.data]
                    /\ last' = IF r.err # ""
                               THEN [Raised(call, r.err, r.key) EXCEPT !.at = r.at]
                               ELSE [ReturnRows(call, r.data) EXCEPT !.count = r.updated]

update(name, setc, where) ==
    LET call == [Call("update", name) EXCEPT !.setc = setc, !.where = where]
    IN  /\ UNCHANGED <<metadata, cache, issued>>
        /\ IF name \notin DOMAIN metadata
           THEN /\ last' = Raised(call, "KeyError", name)
                /\ UNCHANGED files
           ELSE LET cols == metadata[name]
                    data == load_table_data(name)
                    r == UpdateScan(data, setc, where, cols, 1)
                IN  IF r.err # ""
                    THEN /\ last' = [Raised(call, r.err, r.key) EXCEPT !.at = r.at]
                         /\ UNCHANGED files
                    ELSE /\ files' = [files EXCEPT ![name] = r.data]
                         /\ last' = [ReturnRows(call, r.data) EXCEPT !.count = r.updated]

delete(name, where, ans) ==
    LET call == [Call("delete", name) EXCEPT !.where = where, !.ans = ans]
    IN  /\ UNCHANGED <<metadata, cache, issued>>
        /\ IF ans # "y"
           THEN /\ last' = call
                /\ UNCHANGED files
           ELSE IF name \notin DOMAIN metadata
           THEN /\ last' = Raised(call, "KeyError", name)
                /\ UNCHANGED files
           ELSE LET data == load_table_data(name)
                    r == DeleteScan(data, where, 1)
                IN  /\ files' = [files EXCEPT ![name] = r.data]
                    /\ last' = [ReturnRows(call, r.data) EXCEPT !.count = r.deleted]

info(name) ==
    LET call == Call("info", name)
    IN  /\ UNCHANGED <<metadata, files, cache, issued>>
        /\ IF name \notin DOMAIN metadata
           THEN last' = Raised(call, "KeyError", name)
           ELSE last' = [call EXCEPT !.ret = "info",
                                     !.columns = metadata[name],
                                     !.count = Len(load_table_data(name))]

----------------------------------------------------------------------------

\* one more call of the session
Step == calls < MaxCalls /\ calls' = calls + 1 /\ UNCHANGED shell

CreateTable == Step /\ \E n \in Names, c \in ColumnLists : create_table(n, c)
DropTable == Step /\ \E n \in Names, a \in Answers, f \in BOOLEAN : drop_table(n, a, f)
Insert == Step /\ \E n \in Names, v \in ValueLists : insert(n, v)
Select == Step /\ \E n \in Names, w \in Wheres : select(n, w)
Update == Step /\ \E n \in Names, s \in SetClauses, w \in Predicates : update(n, s, w)
Delete == Step /\ \E n \in Names, w \in Predicates, a \in Answers : delete(n, w, a)
Info == Step /\ \E n \in Names : info(n)

Next ==
    \/ CreateTable
    \/ DropTable
    \/ Insert
    \/ Select
    \/ Update
    \/ Delete
    \/ Info

Spec == Init /\ [][Next]_vars

----------------------------------------------------------------------------
(* What the properties below read off a call *)

Succeeded(call, op) == call.op = op /\ call.ret # "None"

\* the ID of the row a successful insert appended
NewId(call) == call.rows[Len(call.rows)]["ID"].v

TypeErrors == {"ValueError:int", "ValueError:str", "ValueError:bool"}

\* a value and a declared type agree, the three types being disjoint
SameType(val, col_type) == val.t = col_type

\* the largest ID among rows, 0 when there is none
LargestId(rows) ==
    IF rows = <<>> THEN 0
    ELSE CHOOSE m \in {GetId(rows[i]).v : i \in 1..Len(rows)} :
             \A j \in 1..Len(rows) : GetId(rows[j]).v <= m

\* a row equals every literal of the predicate in type and in value
StrictlyMatches(row, where) ==
    \A i \in 1..Len(where.items) :
        Get(row, where.items[i][1]) = where.items[i][2]

\* a row carries every assignment of a set_clause
Carries(row, setc) ==
    \A i \in 1..Len(setc) : Get(row, setc[i][1]) = setc[i][2]

----------------------------------------------------------------------------
(* C1: every successful insert assigns an ID strictly greater than every   *)
(* ID an earlier insert into that table assigned, deleted rows included.   *)
(* The code takes the maximum over the rows still in the file, so the ID   *)
(* of a deleted last row is given out again.                               *)

C1_InsertIdAboveEveryEarlierId ==
    [][Succeeded(last', "insert") => NewId(last') > issued[last'.name]]_vars

(* C2: select with an empty or absent predicate returns every row of the   *)
(* table's current persisted dataset, in order, also after earlier selects.*)
(* The cache answers the second select with the rows of the first.         *)

C2_SelectAllReturnsCurrentRows ==
    (Succeeded(last, "select") /\ (last.where.absent \/ last.where.items = <<>>))
        => last.rows = files[last.name]

(* C3: once select(T, p) has succeeded, every later successful select with *)
(* the same table name and predicate returns the content of the first one, *)
(* whatever was written in between: the result of a select is the cache    *)
(* entry of its key, and an entry, once stored, is never changed or        *)
(* removed by any call.                                                    *)

C3_SelectRepeatsFirstResult ==
    [][/\ \A k \in DOMAIN cache : k \in DOMAIN cache' /\ cache'[k] = cache[k]
       /\ Succeeded(last', "select") =>
              LET key == CacheKey(last'.name, last'.where)
              IN  /\ key \in DOMAIN cache'
                  /\ last'.rows = cache'[key]]_vars

\* a repeated select after a write: its result is no longer what the file holds
C3_Witness ==
    /\ Succeeded(last, "select")
    /\ last.name \in DOMAIN metadata
    /\ last.rows # Compute(files[last.name], last.where)
    /\ last.rows # <<>>

(* C4: in select on a cold cache, in update and in delete, a row matches a *)
(* non-empty predicate iff it equals every literal in type and in value:   *)
(* select returns, update assigns to and delete removes exactly those      *)
(* rows.  The code compares with !=, under which 1 and True are equal.     *)

C4_MatchIsTypeStrict ==
    [][LET call == last'
           rows == files[call.name]
           strict(row) == StrictlyMatches(row, call.where)
           loose(row) == ~StrictlyMatches(row, call.where)
       IN  /\ (/\ Succeeded(call, "select")
               /\ call.where.items # <<>>
               /\ CacheKey(call.name, call.where) \notin DOMAIN cache)
                  => call.rows = SelectSeq(rows, strict)
           /\ (Succeeded(call, "update") /\ call.where.items # <<>>)
                  => \A i \in 1..Len(rows) :
                         IF strict(rows[i])
                         THEN Carries(files'[call.name][i], call.setc)
                         ELSE files'[call.name][i] = rows[i]
           /\ (Succeeded(call, "delete") /\ call.where.items # <<>>)
                  => files'[call.name] = SelectSeq(rows, loose)]_vars

(* C5: insert fails with a type-mismatch error and leaves the persisted    *)
(* dataset unchanged whenever the type of some value is not the declared   *)
(* type of its column, bool and int being disjoint.  The code tests        *)
(* isinstance(val, int), which a bool passes.                              *)

C5_InsertRejectsEveryTypeMismatch ==
    [][(/\ last'.op = "insert"
        /\ last'.name \in DOMAIN metadata
        /\ Len(last'.values) = Len(metadata[last'.name]) - 1
        /\ \E i \in 1..Len(last'.values) :
               ~SameType(last'.values[i], metadata[last'.name][i + 1][2]))
           => /\ last'.ret = "None"
              /\ last'.err \in TypeErrors
              /\ files' = files]_vars

(* C6: a successful insert gives the new row the ID 1 + the largest ID     *)
(* among the rows in the table file (1 when there is none), appends the    *)
(* row, made of the values in column order, at the end and persists and    *)
(* returns the whole dataset.                                              *)

C7_InsertArityMismatchFails ==
    [][(/\ last'.op = "insert"
        /\ last'.name \in DOMAIN metadata
        /\ Len(last'.values) # Len(metadata[last'.name]) - 1)
           => /\ last'.ret = "None"
              /\ last'.err = "ValueError:arity"
              /\ files' = files
              /\ metadata' = metadata]_vars

\* a value list one too long, refused on a table that holds rows
C7_Witness ==
    /\ last.op = "insert"
    /\ last.err = "ValueError:arity"
    /\ last.name \in DOMAIN metadata
    /\ Len(last.values) = Len(metadata[last.name])
    /\ files[last.name] # <<>>

(* C8: a successful update changes only rows that match the predicate     *)
(* (by the comparison update itself makes) and, in those, only the         *)
(* assigned columns; the other rows, the number of rows and their order    *)
(* stay as they were.                                                      *)

C8_UpdateTouchesOnlyMatchingRows ==
    [][Succeeded(last', "update") =>
           LET old == files[last'.name]
               new == files'[last'.name]
               setc == last'.setc
               assigned == {setc[j][1] : j \in 1..Len(setc)}
           IN  /\ Len(new) = Len(old)
               /\ last'.rows = new
               /\ \A i \in 1..Len(old) :
                      IF Matches(old[i], last'.where.items)
                      THEN /\ DOMAIN new[i] = DOMAIN old[i] \cup assigned
                           /\ \A c \in DOMAIN old[i] \ assigned : new[i][c] = old[i][c]
                      ELSE new[i] = old[i]]_vars

\* an update that assigned to some rows of the table and not to others
C8_Witness ==
    /\ Succeeded(last, "update")
    /\ last.count > 0
    /\ last.count < Len(last.rows)
    /\ \E i \in 1..Len(last.rows) : ~Carries(last.rows[i], last.setc)

(* C9: when update fails on a type check at a matching row, the call       *)
(* fails; in the table file afterwards the failing row is as it was (none  *)
(* of the call's assignments), the matching rows before it carry all the   *)
(* assignments and the other rows before it are as they were.  The type    *)
(* check does not read the row, so it fails at the first matching row: no  *)
(* matching row precedes the failing one (last conjunct).                  *)

C9_FailedUpdateLeavesFailingRow ==
    [][(last'.op = "update" /\ last'.err \in TypeErrors) =>
           LET old == files[last'.name]
               new == files'[last'.name]
               at == last'.at
           IN  /\ last'.ret = "None"
               /\ at \in 1..Len(old)
               /\ Len(new) = Len(old)
               /\ new[at] = old[at]
               /\ \A i \in 1..(at - 1) :
                      IF Matches(old[i], last'.where.items)
                      THEN Carries(new[i], last'.setc)
                      ELSE new[i] = old[i]
               /\ \A i \in 1..(at - 1) : ~Matches(old[i], last'.where.items)]_vars

\* a failure at the second row, after an assignment that passed its check and
\* would have changed the row
C9_Witness ==
    /\ last.op = "update"
    /\ last.err \in TypeErrors
    /\ last.at >= 2
    /\ last.key # last.setc[1][1]
    /\ Get(files[last.name][last.at], last.setc[1][1]) # last.setc[1][2]

(* C10: a successful delete persists and returns exactly the rows that do  *)
(* not match the predicate, in their order, so that the count drops by the *)
(* number of matching rows and an info called right after reports that     *)
(* count.                                                                  *)

C10_DeleteKeepsNonMatchingRows ==
    [][/\ Succeeded(last', "delete") =>
              LET old == files[last'.name]
                  new == files'[last'.name]
                  matching == {i \in 1..Len(old) : Matches(old[i], last'.where.items)}
                  kept(row) == ~Matches(row, last'.where.items)
              IN  /\ new = SelectSeq(old, kept)
                  /\ last'.rows = new
                  /\ Len(new) = Len(old) - Cardinality(matching)
                  /\ last'.count = Cardinality(matching)
       /\ (/\ Succeeded(last, "delete")
           /\ Succeeded(last', "info")
           /\ last'.name = last.name)
              => last'.count = Len(last.rows)]_vars

\* info after a delete that removed some of the inserted rows and kept others
C10_Witness ==
    /\ Succeeded(last, "info")
    /\ last.count > 0
    /\ last.count < issued[last.name]

(* C11: create_table fails when the name is already in the schema map and  *)
(* when a supplied column has a type outside the fixed type set; a failing *)
(* call leaves the schema map as it was; a successful call stores the      *)
(* column list ID:int followed by the supplied columns in their order and  *)
(* leaves every other table's entry alone.                                 *)
C11_CreateTableChecksNameAndTypes ==
    [][last'.op = "create_table" =>
        LET name == last'.name
            columns == last'.columns
        IN  IF \/ name \in DOMAIN metadata
               \/ \E i \in 1..Len(columns) : columns[i][2] \notin VALID_TYPES
            THEN last'.ret = "None" /\ last'.err # "" /\ metadata' = metadata
            ELSE /\ last'.ret = "metadata"
                 /\ DOMAIN metadata' = DOMAIN metadata \cup {name}
                 /\ metadata'[name] = << <<"ID", "int">> >> \o columns
                 /\ \A n \in DOMAIN metadata : metadata'[n] = metadata[n]]_vars

\* a create_table was refused for its name, and the table an earlier call
\* stored under that name still has ID:int and its two supplied columns
C11_Witness ==
    /\ last.op = "create_table"
    /\ last.err = "ValueError:exists"
    /\ metadata[last.name] = <<<<"ID", "int">>, <<"a", "int">>, <<"b", "bool">>>>

(* C12: drop_table of a name that is not in the schema map fails and       *)
(* leaves the schema map as it was; drop_table of a name that is in it     *)
(* removes the entry and succeeds, also when clearing the table's rows     *)
(* raised.                                                                 *)
C12_DropTableRemovesPresentName ==
    [][last'.op = "drop_table" =>
        IF last'.name \notin DOMAIN metadata
        THEN last'.ret = "None" /\ metadata' = metadata
        ELSE /\ last'.ret = "metadata"
             /\ DOMAIN metadata' = DOMAIN metadata \ {last'.name}
             /\ \A n \in DOMAIN metadata' : metadata'[n] = metadata[n]]_vars

\* the kind of failure the exception of a call stands for
ErrorKind(call) ==
    CASE call.err = "ValueError:exists" -> "TableExists"
      [] call.err = "ValueError:type" -> "InvalidType"
      [] call.err = "ValueError:arity" -> "ArityMismatch"
      [] call.err \in TypeErrors -> "TypeMismatch"
      [] call.err = "KeyError" /\ call.key = call.name -> "TableNotFound"
      [] call.err = "KeyError" /\ call.key # call.name -> "UnknownColumn"
      [] OTHER -> ""

(* C13: a core operation that fails returns a value that names the kind of *)
(* the failure (TableExists, TableNotFound, UnknownColumn, InvalidType,    *)
(* ArityMismatch, TypeMismatch): the value differs from every value a      *)
(* successful call returns and from the default None.                      *)
C13_FailureReturnsItsKind ==
    last.err # "" => last.ret = ErrorKind(last)

(* C16: every row in the file of every existing table has exactly the key  *)
(* ID and the table's declared columns, and each value has the declared    *)
(* type of its column, int, str and bool being disjoint.                   *)
C16_RowsConformToSchema ==
    \A n \in DOMAIN metadata :
        \A i \in 1..Len(files[n]) :
            LET row == files[n][i]
                cols == metadata[n]
            IN  /\ DOMAIN row = {cols[k][1] : k \in 1..Len(cols)}
                /\ \A k \in 1..Len(cols) : SameType(row[cols[k][1]], cols[k][2])

(* C17: a table is empty from its creation until the first insert into it: *)
(* info reports zero rows and a select with no predicate returns no row,   *)
(* also for a name that was dropped and created again.                     *)
C17_CreatedTableIsEmpty ==
    (/\ last.name \in DOMAIN metadata
     /\ issued[last.name] = 0)
        => /\ Succeeded(last, "info") => last.count = 0
           /\ (Succeeded(last, "select") /\ last.where.absent) => last.rows = <<>>

(* C18: drop_table and delete ask nothing: called on an existing table,    *)
(* drop_table removes the table and delete removes the rows that match,    *)
(* and no such call returns with the state as it was because of an answer. *)
C18_DropAndDeleteAreUnconditional ==
    [][/\ (last'.op = "drop_table" /\ last'.name \in DOMAIN metadata)
              => last'.name \notin DOMAIN metadata'
       /\ (last'.op = "delete" /\ last'.name \in DOMAIN metadata)
              => LET kept(row) == ~Matches(row, last'.where.items)
                 IN  files'[last'.name] = SelectSeq(files[last'.name], kept)]_vars

----------------------------------------------------------------------------
(* Python strings.  A str of the parser is the sequence of its characters, *)
(* so that quotes, case and digits are there to be looked at.              *)

Whitespace == {" "}

lstrip(s) ==
    LET first == CHOOSE i \in 1..(Len(s) + 1) :
                     /\ \A k \in 1..(i - 1) : s[k] \in Whitespace
                     /\ i <= Len(s) => s[i] \notin Whitespace
    IN  SubSeq(s, first, Len(s))

rstrip(s) ==
    LET end == CHOOSE i \in 0..Len(s) :
                   /\ \A k \in (i + 1)..Len(s) : s[k] \in Whitespace
                   /\ i >= 1 => s[i] \notin Whitespace
    IN  SubSeq(s, 1, end)

strip(s) == rstrip(lstrip(s))

startswith(s, c) == Len(s) > 0 /\ s[1] = c

endswith(s, c) == Len(s) > 0 /\ s[Len(s)] = c

\* s[1:-1]
Inner(s) == SubSeq(s, 2, Len(s) - 1)

Upper == <<"A", "E", "F", "L", "R", "S", "T", "U">>
Lower == <<"a", "e", "f", "l", "r", "s", "t", "u">>

LowerChar(c) ==
    IF \E i \in 1..Len(Upper) : Upper[i] = c
    THEN Lower[CHOOSE i \in 1..Len(Upper) : Upper[i] = c]
    ELSE c

lower(s) == [i \in 1..Len(s) |-> LowerChar(s[i])]

DigitChars == <<"0", "1", "2", "3", "4", "5", "6", "7", "8", "9">>

IsDigit(c) == \E i \in 1..Len(DigitChars) : DigitChars[i] = c

DigitValue(c) == (CHOOSE i \in 1..Len(DigitChars) : DigitChars[i] = c) - 1

\* the digits of an int literal after its sign
Unsigned(t) == IF startswith(t, "+") \/ startswith(t, "-") THEN Tail(t) ELSE t

\* int(t) does not raise ValueError
IsIntLiteral(t) ==
    /\ Len(Unsigned(t)) > 0
    /\ \A i \in 1..Len(Unsigned(t)) : IsDigit(Unsigned(t)[i])

RECURSIVE DigitsValue(_)
DigitsValue(d) ==
    IF d = <<>> THEN 0
    ELSE 10 * DigitsValue(SubSeq(d, 1, Len(d) - 1)) + DigitValue(d[Len(d)])

\* int(t)
int(t) == IF startswith(t, "-") THEN 0 - DigitsValue(Unsigned(t))
          ELSE DigitsValue(Unsigned(t))

DQ == "\""
SQ == "'"
TrueText == <<"t", "r", "u", "e">>
FalseText == <<"f", "a", "l", "s", "e">>

\* _parse_value_token(tok)
parse_value_token(tok) ==
    LET t == strip(tok)
    IN  IF \/ startswith(t, DQ) /\ endswith(t, DQ)
           \/ startswith(t, SQ) /\ endswith(t, SQ)
        THEN StrV(Inner(t))
        ELSE IF lower(t) \in {TrueText, FalseText}
        THEN BoolV(lower(t) = TrueText)
        ELSE IF IsIntLiteral(t)
        THEN IntV(int(t))
        ELSE StrV(t)

----------------------------------------------------------------------------
(* _parse_value_token on its own: a token is drawn, then typed.  The      *)
(* tokens are a text, bare or with a quote character on either side, and  *)
(* blanks around it.                                                       *)

Pads == {<<>>, <<" ">>}
Quotes == {<<>>, <<DQ>>, <<SQ>>}
Texts ==
    {<<>>, TrueText, <<"T", "r", "u", "e">>, FalseText, <<"F", "A", "L", "S", "E">>,
     <<"4", "2">>, <<"-", "7">>, <<"+", "5">>, <<"0">>, <<"x">>, <<"4", "x">>,
     <<"-">>, <<"t", "r", "u">>}

Tokens ==
    {p \o open \o text \o close \o p :
        p \in Pads, open \in Quotes, text \in Texts, close \in Quotes}

InitToken ==
    /\ metadata = <<>>
    /\ files = [n \in Names |-> <<>>]
    /\ cache = <<>>
    /\ last = NoCall
    /\ issued = [n \in Names |-> 0]
    /\ calls = 0
    /\ metafile = File(<<>>)
    /\ alive = "running"
    /\ arg \in Tokens
    /\ result = Pending

ParseValueToken ==
    /\ ~result.done
    /\ result' = Done(parse_value_token(arg))
    /\ UNCHANGED <<metadata, files, cache, last, issued, calls, metafile, alive, arg>>

NextToken == ParseValueToken

SpecToken == InitToken /\ [][NextToken]_vars

\* t has a quote character q at both ends, around a text
Wrapped(t, q) == Len(t) >= 2 /\ t[1] = q /\ t[Len(t)] = q

IsQuoted(t) == Wrapped(t, DQ) \/ Wrapped(t, SQ)

(* C14: a literal token is typed by the first rule that fits: a token      *)
(* wrapped in matching single or double quotes is the string between the   *)
(* quotes, whatever that text spells; a bare true or false in any case is  *)
(* that boolean; a bare integer text is that integer; any other token is   *)
(* itself, as a string.                                                    *)
C14_LiteralTypingOrder ==
    result.done =>
        LET t == strip(arg)
            value == result.value
        IN  IF IsQuoted(t) THEN value = StrV(Inner(t))
            ELSE IF lower(t) = TrueText THEN value = BoolV(TRUE)
            ELSE IF lower(t) = FalseText THEN value = BoolV(FALSE)
            ELSE IF IsIntLiteral(t) THEN value = IntV(int(t))
            ELSE value = StrV(t)

----------------------------------------------------------------------------
(* parse_where on its own: a list of tokens is drawn, then parsed.  What a *)
(* parser returns is [err, dict]: the exception it raised, or its dict.    *)

Returned(dict) == [err |-> "", dict |-> dict]
RaisedValueError(what) == [err |-> what, dict |-> Dict(<<>>)]

\* parse_where(expr_tokens)
parse_where(expr_tokens) ==
    IF Len(expr_tokens) < 3 \/ expr_tokens[2] # <<"=">>
    THEN RaisedValueError("ValueError:where")
    ELSE Returned(Dict(<<<<expr_tokens[1], parse_value_token(expr_tokens[3])>>>>))

MaxTokens == 4      \* tokens after the word where

WhereWords == {<<"a">>, <<"b">>, <<"=">>, <<"=", "=">>, <<"1">>, <<"a", "n", "d">>}

TokenLists == UNION {[1..n -> WhereWords] : n \in 0..MaxTokens}

InitWhere ==
    /\ metadata = <<>>
    /\ files = [n \in Names |-> <<>>]
    /\ cache = <<>>
    /\ last = NoCall
    /\ issued = [n \in Names |-> 0]
    /\ calls = 0
    /\ metafile = File(<<>>)
    /\ alive = "running"
    /\ arg \in TokenLists
    /\ result = Pending

ParseWhere ==
    /\ ~result.done
    /\ result' = Done(parse_where(arg))
    /\ UNCHANGED <<metadata, files, cache, last, issued, calls, metafile, alive, arg>>

NextWhere == ParseWhere

SpecWhere == InitWhere /\ [][NextWhere]_vars

(* C20: parse_where accepts exactly the three tokens column, =, value and  *)
(* returns the map with the one entry column: typed value; a list of fewer *)
(* than three tokens, of more than three tokens, or with a second token    *)
(* other than = fails with the malformed-predicate error.                  *)
C20_WhereIsExactlyThreeTokens ==
    result.done =>
        IF Len(arg) = 3 /\ arg[2] = <<"=">>
        THEN /\ result.value.err = ""
             /\ result.value.dict.items = <<<<arg[1], parse_value_token(arg[3])>>>>
        ELSE result.value.err = "ValueError:where"

----------------------------------------------------------------------------
(* The other parsers of parser.py.  A field that holds no value in a       *)
(* result is empty.                                                        *)

\* the first position of character c in s, 0 when it is not there
Position(s, c) ==
    IF \E i \in 1..Len(s) : s[i] = c
    THEN CHOOSE i \in 1..Len(s) : s[i] = c /\ \A k \in 1..(i - 1) : s[k] # c
    ELSE 0

\* s.split(c)
RECURSIVE split(_, _)
split(s, c) ==
    IF Position(s, c) = 0 THEN <<s>>
    ELSE <<SubSeq(s, 1, Position(s, c) - 1)>>
             \o split(SubSeq(s, Position(s, c) + 1, Len(s)), c)

\* " ".join(tokens)
RECURSIVE join(_)
join(tokens) ==
    IF tokens = <<>> THEN <<>>
    ELSE IF Len(tokens) = 1 THEN tokens[1]
    ELSE tokens[1] \o <<" ">> \o join(Tail(tokens))

\* shlex.split from character i on: cur is the token being read (started says
\* whether there is one), quote the quote character that is open, acc the
\* tokens read so far
RECURSIVE Shlex(_, _, _, _, _, _)
Shlex(line, i, cur, started, quote, acc) ==
    IF i > Len(line)
    THEN IF quote # "" THEN [err |-> "ValueError:quotation", tokens |-> <<>>]
         ELSE [err |-> "", tokens |-> IF started THEN Append(acc, cur) ELSE acc]
    ELSE LET c == line[i]
         IN  IF quote # ""
             THEN IF c = quote THEN Shlex(line, i + 1, cur, TRUE, "", acc)
                  ELSE Shlex(line, i + 1, Append(cur, c), TRUE, quote, acc)
             ELSE IF c \in Whitespace
             THEN IF started THEN Shlex(line, i + 1, <<>>, FALSE, "", Append(acc, cur))
                  ELSE Shlex(line, i + 1, <<>>, FALSE, "", acc)
             ELSE IF c \in {DQ, SQ}
             THEN Shlex(line, i + 1, cur, TRUE, c, acc)
             ELSE Shlex(line, i + 1, Append(cur, c), TRUE, "", acc)

\* split_command(line): [err, tokens]
split_command(line) == Shlex(line, 1, <<>>, FALSE, "", <<>>)

\* parse_columns(columns): [err, cols], cols the (name, type) pairs
RECURSIVE parse_columns(_)
parse_columns(columns) ==
    IF columns = <<>> THEN [err |-> "", cols |-> <<>>]
    ELSE LET col == columns[1]
             at == Position(col, ":")
             rest == parse_columns(Tail(columns))
         IN  IF at = 0 THEN [err |-> "ValueError:columns", cols |-> <<>>]
             ELSE IF rest.err # "" THEN rest
             ELSE [err |-> "",
                   cols |-> <<<<SubSeq(col, 1, at - 1), SubSeq(col, at + 1, Len(col))>>>>
                               \o rest.cols]

\* res[k] = v on the items of a dict: a key that is there keeps its place
SetItem(items, k, v) ==
    IF \E i \in 1..Len(items) : items[i][1] = k
    THEN [i \in 1..Len(items) |-> IF items[i][1] = k THEN <<k, v>> ELSE items[i]]
    ELSE Append(items, <<k, v>>)

\* the loop of parse_set over parts, res being the items so far
RECURSIVE SetParts(_, _)
SetParts(parts, res) ==
    IF parts = <<>> THEN [err |-> "", dict |-> res]
    ELSE LET part == strip(parts[1])
             at == Position(part, "=")
         IN  IF at = 0 THEN [err |-> "ValueError:set", dict |-> <<>>]
             ELSE SetParts(Tail(parts),
                           SetItem(res, strip(SubSeq(part, 1, at - 1)),
                                   parse_value_token(
                                       strip(SubSeq(part, at + 1, Len(part))))))

\* parse_set(expr_tokens): [err, dict], dict the items of the set clause
parse_set(expr_tokens) == SetParts(split(join(expr_tokens), ","), <<>>)

\* the loop of parse_values from character i on: current is the part being
\* read, quote_char the open quote ("" when not in_quote), parts those read
RECURSIVE ValueParts(_, _, _, _, _)
ValueParts(s, i, current, quote_char, parts) ==
    IF i > Len(s)
    THEN IF strip(current) # <<>> THEN Append(parts, strip(current)) ELSE parts
    ELSE LET ch == s[i]
         IN  IF ch \in {DQ, SQ}
             THEN ValueParts(s, i + 1, Append(current, ch),
                             IF quote_char = "" THEN ch
                             ELSE IF quote_char = ch THEN "" ELSE quote_char,
                             parts)
             ELSE IF ch = "," /\ quote_char = ""
             THEN ValueParts(s, i + 1, <<>>, "", Append(parts, strip(current)))
             ELSE ValueParts(s, i + 1, Append(current, ch), quote_char, parts)

\* parse_values(value_token): the list of values
parse_values(value_token) ==
    LET t == strip(value_token)
        s == IF startswith(t, "(") /\ endswith(t, ")") THEN Inner(t) ELSE t
        parts == ValueParts(s, 1, <<>>, "", <<>>)
    IN  [i \in 1..Len(parts) |-> parse_value_token(parts[i])]

----------------------------------------------------------------------------
(* The words of a session.  The core above names tables, columns and types *)
(* by strings; the shell reads characters.  Spelling gives the characters  *)
(* of each word, Text the characters of a line written as words and single *)
(* characters, and Atom the word that a token spells.                      *)

Spelling ==
       ("create_table" :> <<"c", "r", "e", "a", "t", "e", "_", "t", "a", "b", "l", "e">>)
    @@ ("drop_table" :> <<"d", "r", "o", "p", "_", "t", "a", "b", "l", "e">>)
    @@ ("list_tables" :> <<"l", "i", "s", "t", "_", "t", "a", "b", "l", "e", "s">>)
    @@ ("insert" :> <<"i", "n", "s", "e", "r", "t">>)
    @@ ("into" :> <<"i", "n", "t", "o">>)
    @@ ("values" :> <<"v", "a", "l", "u", "e", "s">>)
    @@ ("select" :> <<"s", "e", "l", "e", "c", "t">>)
    @@ ("from" :> <<"f", "r", "o", "m">>)
    @@ ("where" :> <<"w", "h", "e", "r", "e">>)
    @@ ("update" :> <<"u", "p", "d", "a", "t", "e">>)
    @@ ("set" :> <<"s", "e", "t">>)
    @@ ("delete" :> <<"d", "e", "l", "e", "t", "e">>)
    @@ ("info" :> <<"i", "n", "f", "o">>)
    @@ ("help" :> <<"h", "e", "l", "p">>)
    @@ ("exit" :> <<"e", "x", "i", "t">>)
    @@ ("users" :> <<"u", "s", "e", "r", "s">>)
    @@ ("name" :> <<"n", "a", "m", "e">>)
    @@ ("age" :> <<"a", "g", "e">>)
    @@ ("int" :> <<"i", "n", "t">>)
    @@ ("str" :> <<"s", "t", "r">>)
    @@ ("string" :> <<"s", "t", "r", "i", "n", "g">>)
    @@ ("bool" :> <<"b", "o", "o", "l">>)
    @@ ("Alice" :> <<"A", "l", "i", "c", "e">>)
    @@ ("30" :> <<"3", "0">>)
    @@ ("31" :> <<"3", "1">>)
    @@ ("ID" :> <<"I", "D">>)
    @@ ("foo" :> <<"f", "o", "o">>)
    @@ ("42" :> <<"4", "2">>)
    @@ ("true" :> <<"t", "r", "u", "e">>)

Chars(piece) == IF piece \in DOMAIN Spelling THEN Spelling[piece] ELSE <<piece>>

RECURSIVE Text(_)
Text(pieces) == IF pieces = <<>> THEN <<>> ELSE Chars(pieces[1]) \o Text(Tail(pieces))

Atom(chars) ==
    IF chars = <<>> THEN ""
    ELSE IF Len(chars) = 1 THEN chars[1]
    ELSE CHOOSE w \in DOMAIN Spelling : Spelling[w] = chars

\* a parsed value as the core sees it
AtomValue(val) == IF val.t = "str" THEN StrV(Atom(val.v)) ELSE val

AtomItems(items) ==
    [i \in 1..Len(items) |-> <<Atom(items[i][1]), AtomValue(items[i][2])>>]

----------------------------------------------------------------------------
(* The lines a session is made of *)

\* create_table users name:string age:int
CreateUsersString ==
    Text(<<"create_table", " ", "users", " ", "name", ":", "string", " ", "age", ":", "int">>)

\* create_table users name:str age:int
CreateUsersStr ==
    Text(<<"create_table", " ", "users", " ", "name", ":", "str", " ", "age", ":", "int">>)

\* create_table users name
CreateNoColon ==
    Text(<<"create_table", " ", "users", " ", "name">>)

\* create_table users
CreateNoColumns ==
    Text(<<"create_table", " ", "users">>)

\* insert into users values ("Alice", 30)
InsertAlice ==
    Text(<<"insert", " ", "into", " ", "users", " ", "values", " ", "(", DQ, "Alice", DQ, ",", " ", "30", ")">>)

\* select from users where age = 30
SelectAge ==
    Text(<<"select", " ", "from", " ", "users", " ", "where", " ", "age", " ", "=", " ", "30">>)

\* select from users
SelectAll ==
    Text(<<"select", " ", "from", " ", "users">>)

\* select from users where name = "Alice
SelectOpenQuote ==
    Text(<<"select", " ", "from", " ", "users", " ", "where", " ", "name", " ", "=", " ", DQ, "Alice">>)

\* update users set age=31 where name="Alice"
UpdateAge ==
    Text(<<"update", " ", "users", " ", "set", " ", "age", "=", "31", " ", "where", " ", "name", "=", DQ, "Alice", DQ>>)

\* update users set age=31 where name = "Alice"
UpdateAgeSpaced ==
    Text(<<"update", " ", "users", " ", "set", " ", "age", "=", "31", " ", "where", " ", "name", " ", "=", " ", DQ, "Alice", DQ>>)

\* update users set age where age = 30
UpdateNoAssignment ==
    Text(<<"update", " ", "users", " ", "set", " ", "age", " ", "where", " ", "age", " ", "=", " ", "30">>)

\* update users age 31 name Alice
UpdateNoSet ==
    Text(<<"update", " ", "users", " ", "age", " ", "31", " ", "name", " ", "Alice">>)

\* delete from users where name="Alice"
DeleteAlice ==
    Text(<<"delete", " ", "from", " ", "users", " ", "where", " ", "name", "=", DQ, "Alice", DQ>>)

\* delete from users where name = "Alice"
DeleteAliceSpaced ==
    Text(<<"delete", " ", "from", " ", "users", " ", "where", " ", "name", " ", "=", " ", DQ, "Alice", DQ>>)

\* delete from users name Alice
DeleteNoWhere ==
    Text(<<"delete", " ", "from", " ", "users", " ", "name", " ", "Alice">>)

\* info users
InfoUsers ==
    Text(<<"info", " ", "users">>)

\* drop_table users
DropUsers ==
    Text(<<"drop_table", " ", "users">>)

\* drop_table
DropNothing ==
    Text(<<"drop_table">>)

\* list_tables
ListTables ==
    Text(<<"list_tables">>)

\* help
Help ==
    Text(<<"help">>)

\* exit
Exit ==
    Text(<<"exit">>)

\* foo
Foo ==
    Text(<<"foo">>)

\* a blank line
Blank ==
    Text(<<" ">>)

\* create_table users ID:str age:int
CreateUsersId ==
    Text(<<"create_table", " ", "users", " ", "ID", ":", "str", " ", "age", ":", "int">>)

\* select from users where name = "42"
SelectName42 ==
    Text(<<"select", " ", "from", " ", "users", " ", "where", " ", "name", " ", "=", " ", DQ, "42", DQ>>)

\* select from users where name = 'true'
SelectNameTrue ==
    Text(<<"select", " ", "from", " ", "users", " ", "where", " ", "name", " ", "=", " ", SQ, "true", SQ>>)

\* update users set name = "42" where name = "Alice"
UpdateName42 ==
    Text(<<"update", " ", "users", " ", "set", " ", "name", " ", "=", " ", DQ, "42", DQ, " ", "where", " ", "name", " ", "=", " ", DQ, "Alice", DQ>>)

Lines ==
    {CreateUsersString, CreateUsersStr, CreateNoColon, CreateNoColumns,
     InsertAlice, SelectAge, SelectAll, SelectOpenQuote,
     UpdateAge, UpdateAgeSpaced, UpdateNoAssignment, UpdateNoSet,
     DeleteAlice, DeleteAliceSpaced, DeleteNoWhere, InfoUsers,
     DropUsers, DropNothing, ListTables, Help,
     Exit, Foo, Blank, SelectName42, SelectNameTrue, UpdateName42,
     CreateUsersId}

----------------------------------------------------------------------------
(* The command loop of engine.py.  Each action reads one line and runs the *)
(* branch of run() that the line selects, the call of the core operation   *)
(* included.  run() catches KeyboardInterrupt only: any other exception    *)
(* that reaches it ends the process.  arg is the list of the lines read.   *)

MaxLines == 4       \* lines read in one session

store == <<metadata, files, cache, last, issued>>

\* what the branch printed last, and the exception that left run()
Out(printed, exc) == Done([printed |-> printed, exc |-> exc])

Continue(printed) == alive' = "running" /\ result' = Out(printed, "")

Crash(exc) == alive' = "crashed" /\ result' = Out("", exc)

\* input(...) returned line
ReadLine(line) ==
    /\ alive = "running"
    /\ calls < MaxLines
    /\ calls' = calls + 1
    /\ arg' = Append(arg, line)

\* split_command(user_input) for each line, user_input being the line stripped
Tokenized == [line \in Lines |-> split_command(strip(line))]

\* tokens[0].lower(), empty when there is no token to look at
Command(line) ==
    LET r == Tokenized[line]
    IN  IF r.err # "" \/ r.tokens = <<>> THEN <<>> ELSE lower(r.tokens[1])

Word(tokens, i) == IF i <= Len(tokens) THEN lower(tokens[i]) ELSE <<>>

\* the first position of the word in tokens, 0 when it is not there
WordAt(tokens, word) ==
    IF \E i \in 1..Len(tokens) : lower(tokens[i]) = word
    THEN CHOOSE i \in 1..Len(tokens) :
             lower(tokens[i]) = word /\ \A k \in 1..(i - 1) : lower(tokens[k]) # word
    ELSE 0

\* s.find(sub) + 1: the first position where sub starts in s, 0 when nowhere
find(s, sub) ==
    LET starts == {i \in 1..(Len(s) - Len(sub) + 1) : SubSeq(s, i, i + Len(sub) - 1) = sub}
    IN  IF starts = {} THEN 0 ELSE CHOOSE i \in starts : \A k \in starts : i <= k

\* user_input[user_input.lower().find("values") + len("values"):].strip()
ValuesText(user_input) ==
    strip(SubSeq(user_input,
                 find(lower(user_input), Spelling["values"]) + Len(Spelling["values"]),
                 Len(user_input)))

AtomColumns(cols) == [i \in 1..Len(cols) |-> <<Atom(cols[i][1]), Atom(cols[i][2])>>]

AtomValues(values) == [i \in 1..Len(values) |-> AtomValue(values[i])]

AtomWhere(dict) == Dict(AtomItems(dict.items))

\* an empty line: continue
BlankLine(line) ==
    /\ ReadLine(line)
    /\ strip(line) = <<>>
    /\ Continue("")
    /\ UNCHANGED <<store, metafile>>

\* shlex.split raises ValueError for a quote that is not closed
SplitCommandRaises(line) ==
    /\ ReadLine(line)
    /\ Tokenized[line].err # ""
    /\ Crash(Tokenized[line].err)
    /\ UNCHANGED <<store, metafile>>

HelpCommand(line) ==
    /\ ReadLine(line)
    /\ Command(line) = Spelling["help"]
    /\ Continue("help")
    /\ UNCHANGED <<store, metafile>>

ExitCommand(line) ==
    /\ ReadLine(line)
    /\ Command(line) = Spelling["exit"]
    /\ alive' = "exited"
    /\ result' = Out("exit", "")
    /\ UNCHANGED <<store, metafile>>

CreateTableCommand(line) ==
    LET tokens == Tokenized[line].tokens
        parsed == parse_columns(SubSeq(tokens, 3, Len(tokens)))
    IN  /\ ReadLine(line)
        /\ Command(line) = Spelling["create_table"]
        /\ IF Len(tokens) < 3
           THEN Continue("usage") /\ UNCHANGED <<store, metafile>>
           ELSE IF parsed.err # ""
           THEN Crash(parsed.err) /\ UNCHANGED <<store, metafile>>
           ELSE /\ create_table(Atom(tokens[2]), AtomColumns(parsed.cols))
                /\ IF last'.ret = "None"
                   THEN metafile' = NullFile /\ Crash("TypeError")
                   ELSE metafile' = File(metadata') /\ Continue("created")

ListTablesCommand(line) ==
    /\ ReadLine(line)
    /\ Command(line) = Spelling["list_tables"]
    /\ Continue("tables")
    /\ UNCHANGED <<store, metafile>>

DropTableCommand(line, ans, fails) ==
    LET tokens == Tokenized[line].tokens
    IN  /\ ReadLine(line)
        /\ Command(line) = Spelling["drop_table"]
        /\ IF Len(tokens) # 2
           THEN Continue("usage") /\ UNCHANGED <<store, metafile>>
           ELSE /\ drop_table(Atom(tokens[2]), ans, fails)
                /\ IF last'.ret = "None"
                   THEN UNCHANGED metafile /\ Continue("")
                   ELSE metafile' = File(metadata') /\ Continue("dropped")

InsertCommand(line) ==
    LET tokens == Tokenized[line].tokens
    IN  /\ ReadLine(line)
        /\ Command(line) = Spelling["insert"]
        /\ Len(tokens) >= 4
        /\ Word(tokens, 2) = Spelling["into"]
        /\ insert(Atom(tokens[3]), AtomValues(parse_values(ValuesText(strip(line)))))
        /\ Continue("inserted")
        /\ UNCHANGED metafile

SelectCommand(line) ==
    LET tokens == Tokenized[line].tokens
        idx == WordAt(tokens, Spelling["where"])
        parsed == IF idx = 0 THEN Returned(NoWhere)
                  ELSE parse_where(SubSeq(tokens, idx + 1, Len(tokens)))
    IN  /\ ReadLine(line)
        /\ Command(line) = Spelling["select"]
        /\ Len(tokens) >= 3
        /\ Word(tokens, 2) = Spelling["from"]
        /\ UNCHANGED metafile
        /\ IF parsed.err # ""
           THEN Crash(parsed.err) /\ UNCHANGED store
           ELSE /\ select(Atom(tokens[3]),
                          IF idx = 0 THEN NoWhere ELSE AtomWhere(parsed.dict))
                /\ IF Atom(tokens[3]) \notin DOMAIN metadata
                   THEN Crash("KeyError")
                   ELSE Continue("rows")

UpdateCommand(line) ==
    LET tokens == Tokenized[line].tokens
        set_idx == WordAt(tokens, Spelling["set"])
        where_idx == WordAt(tokens, Spelling["where"])
        set_clause == parse_set(SubSeq(tokens, set_idx + 1, where_idx - 1))
        where_clause == parse_where(SubSeq(tokens, where_idx + 1, Len(tokens)))
    IN  /\ ReadLine(line)
        /\ Command(line) = Spelling["update"]
        /\ Len(tokens) >= 6
        /\ UNCHANGED metafile
        /\ IF set_idx = 0 \/ where_idx = 0
           THEN Continue("usage") /\ UNCHANGED store
           ELSE IF set_clause.err # ""
           THEN Crash(set_clause.err) /\ UNCHANGED store
           ELSE IF where_clause.err # ""
           THEN Crash(where_clause.err) /\ UNCHANGED store
           ELSE /\ update(Atom(tokens[2]), AtomItems(set_clause.dict),
                          AtomWhere(where_clause.dict))
                /\ Continue("updated")

DeleteCommand(line, ans) ==
    LET tokens == Tokenized[line].tokens
        idx == WordAt(tokens, Spelling["where"])
        where_clause == parse_where(SubSeq(tokens, idx + 1, Len(tokens)))
    IN  /\ ReadLine(line)
        /\ Command(line) = Spelling["delete"]
        /\ Len(tokens) >= 4
        /\ Word(tokens, 2) = Spelling["from"]
        /\ UNCHANGED metafile
        /\ IF idx = 0
           THEN Continue("usage") /\ UNCHANGED store
           ELSE IF where_clause.err # ""
           THEN Crash(where_clause.err) /\ UNCHANGED store
           ELSE /\ delete(Atom(tokens[3]), AtomWhere(where_clause.dict), ans)
                /\ Continue(IF last'.ret = "None" THEN "" ELSE "deleted")

InfoCommand(line) ==
    LET tokens == Tokenized[line].tokens
    IN  /\ ReadLine(line)
        /\ Command(line) = Spelling["info"]
        /\ Len(tokens) = 2
        /\ UNCHANGED metafile
        /\ info(Atom(tokens[2]))
        /\ IF last'.ret = "None" THEN Crash("TypeError") ELSE Continue("info")

\* the line selects no branch: the last print of the loop
UnknownCommand(line) ==
    LET tokens == Tokenized[line].tokens
        cmd == Command(line)
    IN  /\ ReadLine(line)
        /\ strip(line) # <<>>
        /\ Tokenized[line].err = ""
        /\ cmd \notin {Spelling["help"], Spelling["exit"], Spelling["create_table"],
                       Spelling["list_tables"], Spelling["drop_table"]}
        /\ ~(/\ cmd = Spelling["insert"]
             /\ Len(tokens) >= 4 /\ Word(tokens, 2) = Spelling["into"])
        /\ ~(/\ cmd = Spelling["select"]
             /\ Len(tokens) >= 3 /\ Word(tokens, 2) = Spelling["from"])
        /\ ~(cmd = Spelling["update"] /\ Len(tokens) >= 6)
        /\ ~(/\ cmd = Spelling["delete"]
             /\ Len(tokens) >= 4 /\ Word(tokens, 2) = Spelling["from"])
        /\ ~(cmd = Spelling["info"] /\ Len(tokens) = 2)
        /\ Continue("unknown")
        /\ UNCHANGED <<store, metafile>>

----------------------------------------------------------------------------
(* A session *)

TableNames == {"users"}

InitRun ==
    /\ metadata = <<>>
    /\ files = [n \in TableNames |-> <<>>]
    /\ cache = <<>>
    /\ last = NoCall
    /\ issued = [n \in TableNames |-> 0]
    /\ calls = 0
    /\ metafile = File(<<>>)
    /\ alive = "running"
    /\ arg = <<>>
    /\ result = Pending

ReadBlank == \E line \in Lines : BlankLine(line)
SplitRaises == \E line \in Lines : SplitCommandRaises(line)
RunHelp == \E line \in Lines : HelpCommand(line)
RunExit == \E line \in Lines : ExitCommand(line)
RunCreateTable == \E line \in Lines : CreateTableCommand(line)
RunListTables == \E line \in Lines : ListTablesCommand(line)
RunDropTable ==
    \E line \in Lines, ans \in Answers, fails \in BOOLEAN : DropTableCommand(line, ans, fails)
RunInsert == \E line \in Lines : InsertCommand(line)
RunSelect == \E line \in Lines : SelectCommand(line)
RunUpdate == \E line \in Lines : UpdateCommand(line)
RunDelete == \E line \in Lines, ans \in Answers : DeleteCommand(line, ans)
RunInfo == \E line \in Lines : InfoCommand(line)
RunUnknown == \E line \in Lines : UnknownCommand(line)

NextRun ==
    \/ ReadBlank
    \/ SplitRaises
    \/ RunHelp
    \/ RunExit
    \/ RunCreateTable
    \/ RunListTables
    \/ RunDropTable
    \/ RunInsert
    \/ RunSelect
    \/ RunUpdate
    \/ RunDelete
    \/ RunInfo
    \/ RunUnknown

SpecRun == InitRun /\ [][NextRun]_vars

\* run() reloads metadata from META_FILE at the top of each iteration; while
\* the loop runs, that is the dict the last branch left
LoadedIsSaved == alive = "running" => ~metafile.null /\ metadata = metafile.tables

\* the command sequence of the end-to-end run
Script == <<CreateUsersString, InsertAlice, SelectAge, UpdateAge, DeleteAlice, InfoUsers>>

AliceAged(n) == ("ID" :> IntV(1)) @@ ("name" :> StrV("Alice")) @@ ("age" :> IntV(n))

\* what the store and the last call show once the first k commands have run
ScriptResult(k) ==
    CASE k = 1 -> /\ "users" \in DOMAIN metadata
                  /\ metadata["users"] =
                         <<<<"ID", "int">>, <<"name", "string">>, <<"age", "int">>>>
      [] k = 2 -> files["users"] = <<AliceAged(30)>>
      [] k = 3 -> Succeeded(last, "select") /\ last.rows = <<AliceAged(30)>>
      [] k = 4 -> files["users"] = <<AliceAged(31)>>
      [] k = 5 -> files["users"] = <<>>
      [] k = 6 -> Succeeded(last, "info") /\ last.count = 0

(* C15: from the empty store, the lines create_table users name:string     *)
(* age:int; insert into users values ("Alice", 30); select from users      *)
(* where age = 30; update users set age=31 where name="Alice"; delete from *)
(* users where name="Alice"; info users each run successfully: the loop is *)
(* still running after each of them, the schema is ID:int, name:string,    *)
(* age:int, the row is {ID:1, name:Alice, age:30}, the select returns it,  *)
(* the update makes age 31, the delete empties the table and info counts   *)
(* 0 rows.                                                                 *)
C15_ScriptRunsThrough ==
    \A k \in 1..Len(Script) :
        arg = SubSeq(Script, 1, k) => alive = "running" /\ ScriptResult(k)

\* the exceptions of the parsers for a malformed column definition, predicate
\* and assignment
ClauseErrors == {"ValueError:columns", "ValueError:where", "ValueError:set"}

(* C19: after a command that fails, be it a create_table refused for its   *)
(* name or for a type, or a command whose column definition, predicate or  *)
(* assignment is malformed, the loop is still running and reads the next   *)
(* line, and the saved schema metadata is what it was before the command.  *)
C19_LoopSurvivesFailedCommand ==
    [][(\/ /\ Command(arg'[Len(arg')]) = Spelling["create_table"]
           /\ last'.op = "create_table"
           /\ last'.err \in {"ValueError:exists", "ValueError:type"}
        \/ result'.value.exc \in ClauseErrors)
           => alive' = "running" /\ metafile' = metafile]_vars

\* the one value of a one-entry dict given by its items is the string text
HoldsString(items, column, text) ==
    /\ Len(items) = 1
    /\ items[1][1] = column
    /\ items[1][2].t = "str"
    /\ items[1][2].v = text

(* C21: a quoted literal in the where clause or the set clause of a line   *)
(* reaches the core as a string: for select from users where name = "42"   *)
(* (or 'true') the predicate passed to select holds the string 42 (or      *)
(* true), not the integer or the boolean, and for update users set name =  *)
(* "42" where ... the set clause passed to update holds the string 42.     *)
C21_QuotedLiteralStaysString ==
    [][LET line == arg'[Len(arg')]
       IN  /\ line = SelectName42
                  => last'.op = "select" /\ HoldsString(last'.where.items, "name", "42")
           /\ line = SelectNameTrue
                  => last'.op = "select" /\ HoldsString(last'.where.items, "name", "true")
           /\ line = UpdateName42
                  => last'.op = "update" /\ HoldsString(last'.setc, "name", "42")]_vars

(* C22: the stored column list of every table starts with ID:int and has   *)
(* no other column named ID: a column named ID that the caller supplies is *)
(* rejected or dropped by create_table.                                    *)
C22_OnlyTheInjectedIdColumn ==
    \A n \in DOMAIN metadata :
        /\ metadata[n][1] = <<"ID", "int">>
        /\ \A k \in 2..Len(metadata[n]) : metadata[n][k][1] # "ID"

(* C23: no two rows in the file of one table have the same ID, whatever    *)
(* inserts, updates (an update that assigns the ID column included) and    *)
(* deletes came before.                                                    *)
C23_IdsAreUnique ==
    \A n \in DOMAIN metadata :
        \A i, j \in 1..Len(files[n]) :
            i # j => ~PyEq(GetId(files[n][i]), GetId(files[n][j]))

====
